---- MODULE Spec2Model ----
(***************************************************************************)
(* Model of the Transducer loss binding (src/transducer/torch_binding.py)  *)
(* and of the native kernel `_transducer` it calls.                        *)
(*                                                                         *)
(* The wrapper (Transducer.forward / Transducer.backward / certify_inputs  *)
(* and the check_* helpers) is translated from the Python source.  The     *)
(* native kernel is not part of the source tree; it is modelled from the   *)
(* specification (sections 4.1-4.5 and 5).                                 *)
(*                                                                         *)
(* Numbers.  The kernel works in log space over the reals.  A log-space    *)
(* value x is represented here by the exact rational exp(x), a pair        *)
(* <<n, d>> in lowest terms with d > 0, so that                            *)
(*      x + y  is the product,   x - y  the quotient,                      *)
(*      logSumExp(x, y) is the sum,   -infinity is <<0, 1>>.               *)
(* A score s is given by its weight exp(s), a positive integer.  A cost    *)
(* -log(p) is represented by the probability p.  Gradients are ordinary    *)
(* (signed) rationals.                                                     *)
(***************************************************************************)
EXTENDS Integers, Sequences, FiniteSets, TLC

----------------------------------------------------------------------------
(* Exact rational arithmetic *)

RECURSIVE GCD(_, _)
GCD(a, b) == IF b = 0 THEN a ELSE GCD(b, a % b)

Abs(x) == IF x < 0 THEN -x ELSE x

(* n/d in lowest terms; a zero denominator gives NaN, which every operation
   propagates (its denominator stays zero). *)
NaN == <<0, 0>>
Norm(n, d) ==
  IF d = 0 THEN NaN
  ELSE LET g == GCD(Abs(n), Abs(d))
           sg == IF d < 0 THEN -1 ELSE 1
       IN <<(sg * n) \div g, (sg * d) \div g>>

Zero == <<0, 1>>
One == <<1, 1>>
RInt(i) == <<i, 1>>
(* Common factors are removed before multiplying. *)
RAdd(a, b) ==
  IF a[2] = 0 \/ b[2] = 0 THEN NaN
  ELSE LET g == GCD(a[2], b[2])
       IN Norm(a[1] * (b[2] \div g) + b[1] * (a[2] \div g), (a[2] \div g) * b[2])
RNeg(a) == <<-a[1], a[2]>>
RSub(a, b) == RAdd(a, RNeg(b))
RMul(a, b) ==
  IF a[2] = 0 \/ b[2] = 0 THEN NaN
  ELSE IF a[1] = 0 \/ b[1] = 0 THEN Zero
  ELSE LET g1 == GCD(Abs(a[1]), b[2])
           g2 == GCD(Abs(b[1]), a[2])
       IN Norm((a[1] \div g1) * (b[1] \div g2), (a[2] \div g2) * (b[2] \div g1))
RDiv(a, b) == RMul(a, Norm(b[2], b[1]))

(* 4.1 LogSpaceMath: log(exp(a) + exp(b)); the other argument when one is
   -infinity. *)
logSumExp(a, b) == RAdd(a, b)

----------------------------------------------------------------------------
(* Layout of the contiguous batch tensors behind the raw data pointers that
   the wrapper passes together with B, T, U, V (0-based b, t, u, k; the
   sequences are 1-based). *)

EIdx(b, t, k, T, V) == (b * T + t) * V + k + 1
PIdx(b, u, k, U, V) == (b * U + u) * V + k + 1
AIdxShared(b, t, u, T, U) == t * U + u + 1       \* every example in slice 0
AIdx(b, t, u, T, U) == (b * T + t) * U + u + 1
LIdx(b, u, U) == b * (U - 1) + u + 1

(* Kernel arguments: K.E, K.P score weights, K.L labels, K.IL, K.LL lengths
   (flat sequences), K.B, K.T, K.U, K.V sizes, K.blank. *)
ExT(K, b) == K.IL[b + 1]
ExU(K, b) == K.LL[b + 1] + 1
Label(K, b, u) == K.L[LIdx(b, u, K.U)]
Cells(tn, un) == (0 .. tn - 1) \X (0 .. un - 1)

----------------------------------------------------------------------------
(* 4.2 JointScorer *)

Score(K, b, t, u, k) ==
  K.E[EIdx(b, t, k, K.T, K.V)] * K.P[PIdx(b, u, k, K.U, K.V)]

RECURSIVE SumScore(_, _, _, _, _)
SumScore(K, b, t, u, n) ==
  IF n = 0 THEN 0 ELSE Score(K, b, t, u, n - 1) + SumScore(K, b, t, u, n - 1)

(* Z(t,u) = logsumexp_k (Emissions[t,k] + Predictions[u,k]) *)
LogNorm(K, b, t, u) == RInt(SumScore(K, b, t, u, K.V))

(* logP(k | t,u) = Emissions[t,k] + Predictions[u,k] - Z(t,u) *)
LogP(K, b, t, u, k, z) == RDiv(RInt(Score(K, b, t, u, k)), z)

----------------------------------------------------------------------------
(* 4.3 ForwardLattice *)

(* One cell of the recursion: up = alpha[t-1,u], left = alpha[t,u-1],
   zup, zleft the log-norms of those cells. *)
AlphaCell(K, b, t, u, up, left, zup, zleft) ==
  IF t = 0 /\ u = 0 THEN One
  ELSE IF u = 0 THEN RMul(up, LogP(K, b, t - 1, 0, K.blank, zup))
  ELSE IF t = 0 THEN RMul(left, LogP(K, b, 0, u - 1, Label(K, b, u - 1), zleft))
  ELSE logSumExp(RMul(up, LogP(K, b, t - 1, u, K.blank, zup)),
                 RMul(left, LogP(K, b, t, u - 1, Label(K, b, u - 1), zleft)))

(* cost = -(alpha[T_i-1,U_i-1] + logP(blank | T_i-1,U_i-1)) *)
CostOf(K, b, alast, zlast) ==
  RMul(alast, LogP(K, b, ExT(K, b) - 1, ExU(K, b) - 1, K.blank, zlast))

(* buf with v stored at address i (a store outside the buffer is dropped). *)
Store(buf, i, v) == IF i \in DOMAIN buf THEN [buf EXCEPT ![i] = v] ELSE buf

(* alpha and log-norm of cell (t,u) of example b, computed from the cells
   already in the tables and stored in the example's slice. *)
ForwardCell(K, b, t, u, alphas, lognorms) ==
  [alphas |->
     Store(alphas, AIdx(b, t, u, K.T, K.U),
           AlphaCell(K, b, t, u,
                     IF t > 0 THEN alphas[AIdx(b, t - 1, u, K.T, K.U)] ELSE Zero,
                     IF u > 0 THEN alphas[AIdx(b, t, u - 1, K.T, K.U)] ELSE Zero,
                     IF t > 0 THEN lognorms[AIdx(b, t - 1, u, K.T, K.U)] ELSE One,
                     IF u > 0 THEN lognorms[AIdx(b, t, u - 1, K.T, K.U)] ELSE One)),
   lognorms |-> Store(lognorms, AIdx(b, t, u, K.T, K.U), LogNorm(K, b, t, u))]

(* Row t of example b, from cell u to the end of the row. *)
RECURSIVE ForwardRow(_, _, _, _, _, _)
ForwardRow(K, b, t, u, alphas, lognorms) ==
  IF alphas = <<>> \/ lognorms = <<>> \/ u >= ExU(K, b)
  THEN [alphas |-> alphas, lognorms |-> lognorms]
  ELSE LET r == ForwardCell(K, b, t, u, alphas, lognorms)
       IN ForwardRow(K, b, t, u + 1, r.alphas, r.lognorms)

(* The sequential recursion: the valid cells of example b row by row, from
   row t up to (not including) row n.  (A buffer without elements has no
   cell to fill.) *)
RECURSIVE ForwardRows(_, _, _, _, _, _)
ForwardRows(K, b, t, n, alphas, lognorms) ==
  IF alphas = <<>> \/ lognorms = <<>> \/ t >= n
  THEN [alphas |-> alphas, lognorms |-> lognorms]
  ELSE LET r == ForwardRow(K, b, t, 0, alphas, lognorms)
       IN ForwardRows(K, b, t + 1, n, r.alphas, r.lognorms)

ExampleCost(K, b, alphas, lognorms) ==
  LET last == AIdx(b, ExT(K, b) - 1, ExU(K, b) - 1, K.T, K.U)
  IN CostOf(K, b, alphas[last], lognorms[last])

----------------------------------------------------------------------------
(* 4.4 BackwardGradient, from the saved alpha and log-norm tables. *)

Alpha(K, b, t, u, alphas) == alphas[AIdx(b, t, u, K.T, K.U)]
Z(K, b, t, u, lognorms) == lognorms[AIdx(b, t, u, K.T, K.U)]

(* The mass that leaves (t,u) by blank and by the next label; Bt is the beta
   table of the cells after (t,u). *)
BlankOut(K, b, t, u, Bt) ==
  IF t < ExT(K, b) - 1 THEN Bt[<<t + 1, u>>]
  ELSE IF u = ExU(K, b) - 1 THEN One ELSE Zero

LabelOut(K, b, t, u, Bt) ==
  IF u < ExU(K, b) - 1 THEN Bt[<<t, u + 1>>] ELSE Zero

BetaCell(K, b, t, u, Bt, lognorms) ==
  logSumExp(RMul(BlankOut(K, b, t, u, Bt),
                 LogP(K, b, t, u, K.blank, Z(K, b, t, u, lognorms))),
            IF u < ExU(K, b) - 1
            THEN RMul(LabelOut(K, b, t, u, Bt),
                      LogP(K, b, t, u, Label(K, b, u), Z(K, b, t, u, lognorms)))
            ELSE Zero)

(* beta of row t, from cell u down to cell 0; Bt holds the cells after. *)
RECURSIVE BetaRow(_, _, _, _, _, _)
BetaRow(K, b, t, u, Bt, lognorms) ==
  IF u < 0 \/ <<t, u>> \in DOMAIN Bt THEN Bt
  ELSE BetaRow(K, b, t, u - 1,
               (<<t, u>> :> BetaCell(K, b, t, u, Bt, lognorms)) @@ Bt, lognorms)

(* beta of the valid cells, from the last row (row t) backwards. *)
RECURSIVE BetaTable(_, _, _, _, _)
BetaTable(K, b, t, Bt, lognorms) ==
  IF t < 0 \/ <<t, 0>> \in DOMAIN Bt THEN Bt
  ELSE BetaTable(K, b, t - 1, BetaRow(K, b, t, ExU(K, b) - 1, Bt, lognorms), lognorms)

(* d cost / d score(t,u,k): the local probability of k at (t,u), weighted by
   the occupancy of the cell, minus the exact mass of the transition that k
   takes out of the cell (blank and/or the next label). *)
CellGrad(K, b, t, u, k, alphas, lognorms, Bt, ptot) ==
  LET taken == RAdd(IF k = K.blank THEN BlankOut(K, b, t, u, Bt) ELSE Zero,
                    IF u < ExU(K, b) - 1 /\ k = Label(K, b, u)
                    THEN LabelOut(K, b, t, u, Bt) ELSE Zero)
  IN RMul(RDiv(Alpha(K, b, t, u, alphas), ptot),
          RMul(LogP(K, b, t, u, k, Z(K, b, t, u, lognorms)),
               RSub(Bt[<<t, u>>], taken)))

RECURSIVE SumOverU(_, _, _, _, _, _, _, _, _)
SumOverU(K, b, t, k, alphas, lognorms, Bt, ptot, n) ==
  IF n = 0 THEN Zero
  ELSE RAdd(CellGrad(K, b, t, n - 1, k, alphas, lognorms, Bt, ptot),
            SumOverU(K, b, t, k, alphas, lognorms, Bt, ptot, n - 1))

RECURSIVE SumOverT(_, _, _, _, _, _, _, _, _)
SumOverT(K, b, u, k, alphas, lognorms, Bt, ptot, n) ==
  IF n = 0 THEN Zero
  ELSE RAdd(CellGrad(K, b, n - 1, u, k, alphas, lognorms, Bt, ptot),
            SumOverT(K, b, u, k, alphas, lognorms, Bt, ptot, n - 1))

(* EGrad[t,k] sums the cell gradients over the valid u, PGrad[u,k] over the
   valid t; entries outside the valid region are zero.  Every entry of the
   example's slice is written, the other slices are left alone. *)
EGradRows(K, b, egrads, alphas, lognorms, Bt, ptot) ==
  [i \in DOMAIN egrads |->
     IF \E t \in 0 .. K.T - 1, k \in 0 .. K.V - 1 : i = EIdx(b, t, k, K.T, K.V)
     THEN LET t == ((i - 1) \div K.V) % K.T
              k == (i - 1) % K.V
          IN IF t < ExT(K, b)
             THEN SumOverU(K, b, t, k, alphas, lognorms, Bt, ptot, ExU(K, b))
             ELSE Zero
     ELSE egrads[i]]

PGradRows(K, b, pgrads, alphas, lognorms, Bt, ptot) ==
  [i \in DOMAIN pgrads |->
     IF \E u \in 0 .. K.U - 1, k \in 0 .. K.V - 1 : i = PIdx(b, u, k, K.U, K.V)
     THEN LET u == ((i - 1) \div K.V) % K.U
              k == (i - 1) % K.V
          IN IF u < ExU(K, b)
             THEN SumOverT(K, b, u, k, alphas, lognorms, Bt, ptot, ExT(K, b))
             ELSE Zero
     ELSE pgrads[i]]

----------------------------------------------------------------------------
(* 4.5 BatchScheduler: one example against its slice of the batch buffers. *)

ForwardExample(K, b, costs, alphas, lognorms) ==
  LET r == ForwardRows(K, b, 0, ExT(K, b), alphas, lognorms)
  IN [costs |-> Store(costs, b + 1, ExampleCost(K, b, r.alphas, r.lognorms)),
      alphas |-> r.alphas, lognorms |-> r.lognorms]

GradTables(K, b, egrads, pgrads, alphas, lognorms, Bt, ptot) ==
  [egrads |-> EGradRows(K, b, egrads, alphas, lognorms, Bt, ptot),
   pgrads |-> PGradRows(K, b, pgrads, alphas, lognorms, Bt, ptot)]

(* The beta table and the total probability are computed first, the
   gradient rows from them. *)
BackwardExample(K, b, alphas, lognorms, egrads, pgrads) ==
  CHOOSE r \in {GradTables(K, b, egrads, pgrads, alphas, lognorms, Bt, ptot) :
                  Bt \in {BetaTable(K, b, ExT(K, b) - 1, <<>>, lognorms)},
                  ptot \in {ExampleCost(K, b, alphas, lognorms)}} : TRUE

(* The whole batch, example after example. *)
RECURSIVE KernelForward(_, _, _, _, _)
KernelForward(K, n, costs, alphas, lognorms) ==
  IF n = 0 THEN [costs |-> costs, alphas |-> alphas, lognorms |-> lognorms]
  ELSE LET r == KernelForward(K, n - 1, costs, alphas, lognorms)
       IN ForwardExample(K, n - 1, r.costs, r.alphas, r.lognorms)

RECURSIVE KernelBackward(_, _, _, _, _, _)
KernelBackward(K, n, alphas, lognorms, egrads, pgrads) ==
  IF n = 0 THEN [egrads |-> egrads, pgrads |-> pgrads]
  ELSE LET r == KernelBackward(K, n - 1, alphas, lognorms, egrads, pgrads)
       IN BackwardExample(K, n - 1, alphas, lognorms, r.egrads, r.pgrads)

----------------------------------------------------------------------------
(* Tensors as the binding sees them: identity (the storage behind
   data_ptr()), element type, contiguity, shape, and the elements in storage
   order.  The device (is_cuda, device) is passed through unchanged by the
   binding and is left out. *)

Tensor(id, dtype, contig, shape, data) ==
  [id |-> id, dtype |-> dtype, contig |-> contig, shape |-> shape, data |-> data]

NoTensor == Tensor(<<"none", 0>>, "none", FALSE, <<>>, <<>>)

Err(kind, msg) == [kind |-> kind, msg |-> msg]
NoError == Err("none", "")

(* The first entry of errs that is an error. *)
FirstError(errs) ==
  IF \A i \in DOMAIN errs : errs[i] = NoError THEN NoError
  ELSE errs[CHOOSE i \in DOMAIN errs :
              errs[i] # NoError /\ \A j \in 1 .. i - 1 : errs[j] = NoError]

RECURSIVE Prod(_)
Prod(shape) == IF shape = <<>> THEN 1 ELSE Head(shape) * Prod(Tail(shape))

RECURSIVE MaxOf(_)
MaxOf(data) ==
  IF Len(data) = 1 THEN data[1]
  ELSE LET m == MaxOf(Tail(data)) IN IF data[1] > m THEN data[1] ELSE m

(* torch.empty(size, dtype): a fresh tensor whose elements are whatever the
   allocator left there. *)
Empty(n, shape, dtype, junk) ==
  Tensor(<<"new", n>>, dtype, TRUE, shape, [i \in 1 .. Prod(shape) |-> junk])

----------------------------------------------------------------------------
(* check_type, check_contiguous, check_dim *)

check_type(var, t, name) ==
  IF var.dtype # t THEN Err("TypeError", name \o " must be " \o t) ELSE NoError

check_contiguous(var, name) ==
  IF ~var.contig THEN Err("ValueError", name \o " must be contiguous") ELSE NoError

check_dim(var, dim, name) ==
  IF Len(var.shape) # dim
  THEN Err("ValueError", name \o " must be " \o ToString(dim) \o "D")
  ELSE NoError

(* var.shape[i] (0-based), which raises IndexError past the last dimension. *)
HasDim(var, i) == i < Len(var.shape)
ShapeAt(var, i) == var.shape[i + 1]
IndexError == Err("IndexError", "tuple index out of range")

(* torch.max of a tensor without elements raises. *)
max_check(var) ==
  IF Len(var.data) = 0
  THEN Err("RuntimeError", "max(): Expected reduction dim to be specified for input.numel() == 0")
  ELSE NoError

(* The checks of certify_inputs, in the order of the code; each group is the
   sequence of its checks' outcomes. *)
type_checks(emissions, predictions, labels, input_lengths, label_lengths) ==
  <<check_type(emissions, "torch.float32", "emissions"),
    check_type(predictions, "torch.float32", "predictions"),
    check_type(labels, "torch.int32", "labels"),
    check_type(input_lengths, "torch.int32", "input_lengths"),
    check_type(label_lengths, "torch.int32", "label_lengths")>>

contiguous_checks(labels, input_lengths, label_lengths) ==
  <<check_contiguous(labels, "labels"),
    check_contiguous(label_lengths, "label_lengths"),
    check_contiguous(input_lengths, "lengths")>>

shape_checks(emissions, predictions, labels, input_lengths, label_lengths) ==
  <<IF ~HasDim(emissions, 0) THEN IndexError ELSE NoError,
    IF ~HasDim(emissions, 2) \/ ~HasDim(predictions, 2) THEN IndexError
    ELSE IF ShapeAt(emissions, 2) # ShapeAt(predictions, 2)
         THEN Err("ValueError", "vocab size mismatch.") ELSE NoError,
    IF ~HasDim(input_lengths, 0) THEN IndexError
    ELSE IF ShapeAt(input_lengths, 0) # ShapeAt(emissions, 0)
         THEN Err("ValueError", "must have a length per example.") ELSE NoError,
    IF ~HasDim(label_lengths, 0) THEN IndexError
    ELSE IF ShapeAt(label_lengths, 0) # ShapeAt(emissions, 0)
         THEN Err("ValueError", "must have a label length per example.") ELSE NoError,
    IF ~HasDim(labels, 0) THEN IndexError
    ELSE IF ShapeAt(labels, 0) # ShapeAt(emissions, 0)
         THEN Err("ValueError", "must have a label per example.") ELSE NoError,
    IF ~HasDim(labels, 1) \/ ~HasDim(predictions, 1) THEN IndexError
    ELSE IF ShapeAt(labels, 1) # ShapeAt(predictions, 1) - 1
         THEN Err("ValueError", "labels must be padded to maximum label length.")
         ELSE NoError>>

dim_checks(emissions, predictions, labels, input_lengths, label_lengths) ==
  <<check_dim(emissions, 3, "emissions"),
    check_dim(predictions, 3, "predictions"),
    check_dim(labels, 2, "labels"),
    check_dim(input_lengths, 1, "input_lenghts"),
    check_dim(label_lengths, 1, "label_lenghts")>>

(* max_T = torch.max(input_lengths); max_U = torch.max(label_lengths), then
   the two comparisons (reached only with 3-D scores and non-empty lengths;
   the guards keep the operator total). *)
length_checks(emissions, predictions, input_lengths, label_lengths) ==
  <<max_check(input_lengths),
    max_check(label_lengths),
    IF Len(input_lengths.data) = 0 \/ ~HasDim(emissions, 1) THEN NoError
    ELSE IF ShapeAt(emissions, 1) # MaxOf(input_lengths.data)
         THEN Err("ValueError", "Input length mismatch") ELSE NoError,
    IF Len(label_lengths.data) = 0 \/ ~HasDim(predictions, 1) THEN NoError
    ELSE IF ShapeAt(predictions, 1) # MaxOf(label_lengths.data) + 1
         THEN Err("ValueError", "Output length mismatch") ELSE NoError>>

(* certify_inputs: the first check that fails. *)
certify_inputs(emissions, predictions, labels, input_lengths, label_lengths) ==
  FirstError(
    type_checks(emissions, predictions, labels, input_lengths, label_lengths)
    \o contiguous_checks(labels, input_lengths, label_lengths)
    \o shape_checks(emissions, predictions, labels, input_lengths, label_lengths)
    \o dim_checks(emissions, predictions, labels, input_lengths, label_lengths)
    \o length_checks(emissions, predictions, input_lengths, label_lengths))

----------------------------------------------------------------------------
(* The call into the native kernel.  The kernel sees raw pointers and the
   sizes B, T, U, V: the elements in storage order. *)

KCall(fn, ptrs, dims, blank) == [fn |-> fn, ptrs |-> ptrs, dims |-> dims, blank |-> blank]
NoCall == KCall("none", <<>>, <<>>, 0)

KArgs(e, p, l, il, ll, B, T, U, V, blank) ==
  [E |-> e.data, P |-> p.data, L |-> l.data, IL |-> il.data, LL |-> ll.data,
   B |-> B, T |-> T, U |-> U, V |-> V, blank |-> blank]

(* What the kernel assumes of the memory it is handed: float32 scores and
   int32 labels and lengths, laid out contiguously with the sizes it is
   told, label and blank ids inside the vocabulary. *)
MemOk(e, p, l, il, ll, B, T, U, V, blank) ==
  /\ e.dtype = "torch.float32" /\ p.dtype = "torch.float32"
  /\ l.dtype = "torch.int32" /\ il.dtype = "torch.int32" /\ ll.dtype = "torch.int32"
  /\ e.contig /\ p.contig /\ l.contig /\ il.contig /\ ll.contig
  /\ e.shape = <<B, T, V>> /\ p.shape = <<B, U, V>> /\ l.shape = <<B, U - 1>>
  /\ il.shape = <<B>> /\ ll.shape = <<B>>
  /\ \A i \in DOMAIN l.data : l.data[i] \in 0 .. V - 1
  /\ blank \in 0 .. V - 1

(* The per-example length bounds the kernel enforces itself. *)
LengthsOk(il, ll, T, U) ==
  \A i \in DOMAIN il.data :
     /\ 1 <= il.data[i] /\ il.data[i] <= T
     /\ i \in DOMAIN ll.data
     /\ 0 <= ll.data[i] /\ ll.data[i] <= U - 1
     /\ ll.data[i] <= il.data[i]

Degenerate == Err("RuntimeError", "NumericalDegenerate")

----------------------------------------------------------------------------
(* Transducer.forward and Transducer.backward, statement by statement.  The
   local state of a call: the exception raised so far (none: still running),
   the statements run, the locals, the ctx object, the kernel call made and
   the value returned. *)

Ctx(saved, blank, hasBlank) == [saved |-> saved, blank |-> blank, hasBlank |-> hasBlank]
NewCtx == Ctx(<<>>, 0, FALSE)

Local(ctx, inp, junk, n) ==
  [raised |-> NoError, events |-> <<>>, ctx |-> ctx, inp |-> inp, junk |-> junk,
   n |-> n, B |-> 0, T |-> 0, U |-> 0, V |-> 0,
   t1 |-> NoTensor, t2 |-> NoTensor, t3 |-> NoTensor, sv |-> <<>>,
   kcall |-> NoCall, kout |-> <<>>, ret |-> <<>>]

Raise(st, err) == [st EXCEPT !.raised = err]
Ran(st, name) == [st EXCEPT !.events = Append(@, name)]

(* B, T, V = emissions.shape ; U = predictions.shape[1] *)
Shapes(st, emissions, predictions) ==
  IF Len(emissions.shape) # 3
  THEN Raise(st, Err("ValueError", "values to unpack (expected 3)"))
  ELSE IF ~HasDim(predictions, 1) THEN Raise(st, IndexError)
  ELSE [st EXCEPT !.B = ShapeAt(emissions, 0), !.T = ShapeAt(emissions, 1),
                  !.V = ShapeAt(emissions, 2), !.U = ShapeAt(predictions, 1)]

FwdShapes(st) == Shapes(st, st.inp.emissions, st.inp.predictions)

FwdCertify(st) ==
  LET err == certify_inputs(st.inp.emissions, st.inp.predictions, st.inp.labels,
                            st.inp.input_lengths, st.inp.label_lengths)
  IN IF err # NoError THEN Raise(st, err) ELSE Ran(st, "certify_inputs")

(* costs, alphas, log_norms = torch.empty(...) *)
FwdEmpty(st) ==
  Ran([st EXCEPT
         !.t1 = Empty(st.n, <<st.B>>, st.inp.emissions.dtype, st.junk),
         !.t2 = Empty(st.n + 1, <<st.B, st.T, st.U>>, st.inp.emissions.dtype, st.junk),
         !.t3 = Empty(st.n + 2, <<st.B, st.T, st.U>>, st.inp.emissions.dtype, st.junk),
         !.n = st.n + 3], "torch.empty")

(* _transducer.forward(...): fills costs, alphas, log_norms in place. *)
FwdKernel(st) ==
  LET i == st.inp
      call == KCall("forward",
                    <<i.emissions.id, i.predictions.id, st.t1.id, st.t2.id, st.t3.id,
                      i.labels.id, i.input_lengths.id, i.label_lengths.id>>,
                    <<st.B, st.T, st.U, st.V>>, i.blank)
      s1 == Ran([st EXCEPT !.kcall = call], "_transducer.forward")
  IN IF ~MemOk(i.emissions, i.predictions, i.labels, i.input_lengths,
               i.label_lengths, st.B, st.T, st.U, st.V, i.blank)
     THEN s1
     ELSE IF ~LengthsOk(i.input_lengths, i.label_lengths, st.T, st.U)
     THEN Raise(s1, Degenerate)
     ELSE LET r == KernelForward(
                     KArgs(i.emissions, i.predictions, i.labels, i.input_lengths,
                           i.label_lengths, st.B, st.T, st.U, st.V, i.blank),
                     st.B, st.t1.data, st.t2.data, st.t3.data)
          IN [s1 EXCEPT !.t1.data = r.costs, !.t2.data = r.alphas,
                        !.t3.data = r.lognorms]

(* save_for_backward with the two tables in each other's place. *)
FwdSaveSwapped(st) ==
  Ran([st EXCEPT !.ctx.saved =
         <<st.inp.emissions, st.inp.predictions, st.t3, st.t2, st.inp.labels,
           st.inp.input_lengths, st.inp.label_lengths>>], "save_for_backward")

(* ctx.save_for_backward(emissions, predictions, alphas, log_norms, labels,
   input_lengths, label_lengths) *)
FwdSave(st) ==
  Ran([st EXCEPT !.ctx.saved =
         <<st.inp.emissions, st.inp.predictions, st.t2, st.t3, st.inp.labels,
           st.inp.input_lengths, st.inp.label_lengths>>], "save_for_backward")

FwdBlank(st) ==
  Ran([st EXCEPT !.ctx.blank = st.inp.blank, !.ctx.hasBlank = TRUE], "ctx.blank")

FwdReturn(st) == Ran([st EXCEPT !.ret = <<st.t1>>], "return")

(* emissions, predictions, alphas, log_norms, labels, input_lengths,
   label_lengths = ctx.saved_tensors *)
BwdSaved(st) ==
  IF Len(st.ctx.saved) # 7
  THEN Raise(st, Err("ValueError", "values to unpack (expected 7)"))
  ELSE [st EXCEPT !.sv =
          [emissions |-> st.ctx.saved[1], predictions |-> st.ctx.saved[2],
           alphas |-> st.ctx.saved[3], log_norms |-> st.ctx.saved[4],
           labels |-> st.ctx.saved[5], input_lengths |-> st.ctx.saved[6],
           label_lengths |-> st.ctx.saved[7]]]

BwdShapes(st) == Shapes(st, st.sv.emissions, st.sv.predictions)

(* egrads, pgrads = torch.empty(...), of the type of the incoming gradient *)
BwdEmpty(st) ==
  Ran([st EXCEPT
         !.t1 = Empty(st.n, <<st.B, st.T, st.V>>, st.inp.cost.dtype, st.junk),
         !.t2 = Empty(st.n + 1, <<st.B, st.U, st.V>>, st.inp.cost.dtype, st.junk),
         !.n = st.n + 2], "torch.empty")

(* _transducer.backward(...): fills egrads, pgrads in place. *)
BwdKernel(st) ==
  IF ~st.ctx.hasBlank THEN Raise(st, Err("AttributeError", "blank"))
  ELSE
  LET v == st.sv
      call == KCall("backward",
                    <<v.emissions.id, v.predictions.id, st.t1.id, st.t2.id,
                      v.alphas.id, v.log_norms.id, v.labels.id,
                      v.input_lengths.id, v.label_lengths.id>>,
                    <<st.B, st.T, st.U, st.V>>, st.ctx.blank)
      s1 == Ran([st EXCEPT !.kcall = call], "_transducer.backward")
      ok == /\ MemOk(v.emissions, v.predictions, v.labels, v.input_lengths,
                     v.label_lengths, st.B, st.T, st.U, st.V, st.ctx.blank)
            /\ v.alphas.shape = <<st.B, st.T, st.U>>
            /\ v.log_norms.shape = <<st.B, st.T, st.U>>
      s2 == IF ~ok THEN s1
            ELSE IF ~LengthsOk(v.input_lengths, v.label_lengths, st.T, st.U)
            THEN Raise(s1, Degenerate)
            ELSE LET r == KernelBackward(
                            KArgs(v.emissions, v.predictions, v.labels,
                                  v.input_lengths, v.label_lengths,
                                  st.B, st.T, st.U, st.V, st.ctx.blank),
                            st.B, v.alphas.data, v.log_norms.data,
                            st.t1.data, st.t2.data)
                 IN [s1 EXCEPT !.t1.data = r.egrads, !.t2.data = r.pgrads]
  IN [s2 EXCEPT !.kout = <<s2.t1.data, s2.t2.data>>]

(* return egrads, pgrads, None, None, None, None *)
BwdReturn(st) ==
  Ran([st EXCEPT !.ret = <<st.t1, st.t2, NoTensor, NoTensor, NoTensor, NoTensor>>],
      "return")

Step(name, st) ==
  CASE name = "forward.shape" -> FwdShapes(st)
    [] name = "forward.certify_inputs" -> FwdCertify(st)
    [] name = "forward.empty" -> FwdEmpty(st)
    [] name = "forward.kernel" -> FwdKernel(st)
    [] name = "forward.save_for_backward" -> FwdSave(st)
    [] name = "forward.blank" -> FwdBlank(st)
    [] name = "forward.return" -> FwdReturn(st)
    [] name = "backward.saved_tensors" -> BwdSaved(st)
    [] name = "backward.shape" -> BwdShapes(st)
    [] name = "backward.empty" -> BwdEmpty(st)
    [] name = "backward.kernel" -> BwdKernel(st)
    [] name = "backward.return" -> BwdReturn(st)

(* The statements in program order; an exception ends the call. *)
RECURSIVE Run(_, _)
Run(prog, st) ==
  IF prog = <<>> \/ st.raised # NoError THEN st
  ELSE Run(Tail(prog), Step(Head(prog), st))

(* forward with the kernel call ahead of the validation. *)
ForwardProgramKernelFirst ==
  <<"forward.shape", "forward.empty", "forward.kernel", "forward.certify_inputs",
    "forward.save_for_backward", "forward.blank", "forward.return">>

ForwardProgram ==
  <<"forward.shape", "forward.certify_inputs", "forward.empty", "forward.kernel",
    "forward.save_for_backward", "forward.blank", "forward.return">>

BackwardProgram ==
  <<"backward.saved_tensors", "backward.shape", "backward.empty",
    "backward.kernel", "backward.return">>

forward(ctx, inp, junk, n) == Run(ForwardProgram, Local(ctx, inp, junk, n))
backward(ctx, inp, junk, n) == Run(BackwardProgram, Local(ctx, inp, junk, n))

----------------------------------------------------------------------------
(* Bounds of the model *)

MaxB == 2      \* examples per batch
MaxT == 3      \* time steps
MaxL == 2      \* label length (U = MaxL + 1)
NV == 2        \* vocabulary size
NCtx == 2      \* autograd contexts alive at once

Dtypes(right) == {right, IF right = "torch.float32" THEN "torch.float64" ELSE "torch.int64"}
Junk == {RInt(7), NaN}       \* what torch.empty may leave in fresh memory
Upstream == {0, 1, 2}        \* values of the incoming loss gradient

Ones(n) == [i \in 1 .. n |-> 1]
Fill(n, v) == [i \in 1 .. n |-> v]

(* A call's arguments from their description q: element types, contiguity,
   shapes, the two length vectors and the blank id. *)
Build(q) ==
  [emissions |-> Tensor(<<"arg", 1>>, q.edt, q.ec, q.es, Ones(Prod(q.es))),
   predictions |-> Tensor(<<"arg", 2>>, q.pdt, q.pc, q.ps, Ones(Prod(q.ps))),
   labels |-> Tensor(<<"arg", 3>>, q.ldt, q.lc, q.ls, Ones(Prod(q.ls))),
   input_lengths |-> Tensor(<<"arg", 4>>, q.ildt, q.ilc, q.ils, q.il),
   label_lengths |-> Tensor(<<"arg", 5>>, q.lldt, q.llc, q.lls, q.ll),
   blank |-> q.blank]

(* A well-formed call: B = MaxB, T = MaxT, U = MaxL + 1, V = NV. *)
Base ==
  [edt |-> "torch.float32", pdt |-> "torch.float32", ldt |-> "torch.int32",
   ildt |-> "torch.int32", lldt |-> "torch.int32",
   ec |-> TRUE, pc |-> TRUE, lc |-> TRUE, ilc |-> TRUE, llc |-> TRUE,
   es |-> <<MaxB, MaxT, NV>>, ps |-> <<MaxB, MaxL + 1, NV>>, ls |-> <<MaxB, MaxL>>,
   ils |-> <<MaxB>>, lls |-> <<MaxB>>,
   il |-> Fill(MaxB, MaxT), ll |-> Fill(MaxB, MaxL), blank |-> 0]

(* One further defect (or none) to combine with wrong element types. *)
Variants ==
  {Base,
   [Base EXCEPT !.es = <<MaxB, MaxT>>],
   [Base EXCEPT !.ps = <<MaxB>>],
   [Base EXCEPT !.lc = FALSE],
   [Base EXCEPT !.ps = <<MaxB, MaxL + 1, NV + 1>>],
   [Base EXCEPT !.ps = <<MaxB + 1, MaxL + 1, NV>>],
   [Base EXCEPT !.il = Fill(MaxB, MaxT + 1)],
   [Base EXCEPT !.blank = NV]}

TypeInputs ==
  {[v EXCEPT !.edt = a, !.pdt = b, !.ldt = c, !.ildt = d, !.lldt = e] :
     v \in Variants, a \in Dtypes("torch.float32"), b \in Dtypes("torch.float32"),
     c \in Dtypes("torch.int32"), d \in Dtypes("torch.int32"),
     e \in Dtypes("torch.int32")}

ContigInputs ==
  {[Base EXCEPT !.ec = a, !.pc = b, !.lc = c, !.ilc = d, !.llc = e] :
     a \in BOOLEAN, b \in BOOLEAN, c \in BOOLEAN, d \in BOOLEAN, e \in BOOLEAN}

(* Every tensor with one dimension too few, the right number, or one too
   many (a length vector with too few is a 0-d scalar). *)
DimInputs ==
  {[Base EXCEPT !.es = a, !.ps = b, !.ls = c, !.ils = d[1], !.il = d[2],
                !.lls = e[1], !.ll = e[2]] :
     a \in {<<MaxB, MaxT>>, <<MaxB, MaxT, NV>>, <<MaxB, MaxT, NV, 1>>},
     b \in {<<MaxB>>, <<MaxB, MaxL + 1>>, <<MaxB, MaxL + 1, NV>>,
            <<MaxB, MaxL + 1, NV, 1>>},
     c \in {<<MaxB>>, <<MaxB, MaxL>>, <<MaxB, MaxL, 1>>},
     d \in {<< <<>>, <<MaxT>> >>, << <<MaxB>>, Fill(MaxB, MaxT) >>,
            << <<MaxB, 1>>, Fill(MaxB, MaxT) >>},
     e \in {<< <<>>, <<MaxL>> >>, << <<MaxB>>, Fill(MaxB, MaxL) >>,
            << <<MaxB, 1>>, Fill(MaxB, MaxL) >>}}

(* Right types, contiguity and dimensions; the sizes free: B, T, U, the
   vocabulary of predictions, the rows and columns of labels, the number of
   lengths, and the largest length. *)
ShapeInputs ==
  {[Base EXCEPT !.es = <<b, t, NV>>, !.ps = <<b, u, NV + dv>>,
                !.ls = <<b + dr, u - 1 + dc>>,
                !.ils = <<b + di>>, !.il = Fill(b + di, t + dt),
                !.lls = <<b + dl>>, !.ll = Fill(b + dl, u - 1 + du)] :
     b \in 0 .. MaxB, t \in 1 .. MaxT, u \in 1 .. MaxL + 1,
     dv \in {0, 1}, dr \in {0, 1}, dc \in {0, 1}, di \in {0, 1}, dl \in {0, 1},
     dt \in {0, 1}, du \in {0, 1}}

(* Consistent shapes for two examples; every per-example length free. *)
LengthInputs ==
  {[Base EXCEPT !.es = <<2, MaxT, NV>>, !.ps = <<2, MaxL + 1, NV>>,
                !.ls = <<2, MaxL>>, !.ils = <<2>>, !.lls = <<2>>,
                !.il = a, !.ll = b] :
     a \in [1 .. 2 -> 0 .. MaxT], b \in [1 .. 2 -> -1 .. MaxL]}

ValidationInputs ==
  {Build(q) : q \in TypeInputs \cup ContigInputs \cup DimInputs
                    \cup ShapeInputs \cup LengthInputs}

(* Well-formed calls with distinct tensors and distinct scores (two examples,
   T = U = V = 2, lengths (2,1) and (1,0)), and one call that validation
   rejects. *)
Pattern(n, seed) == [i \in 1 .. n |-> 1 + (((i + seed) \div (seed + 1)) % 2)]

HInput(seed, blank) ==
  [emissions |-> Tensor(<<"arg", 5 * seed + 1>>, "torch.float32", TRUE, <<2, 2, 2>>,
                        Pattern(8, seed)),
   predictions |-> Tensor(<<"arg", 5 * seed + 2>>, "torch.float32", TRUE, <<2, 2, 2>>,
                          Pattern(8, seed + 1)),
   labels |-> Tensor(<<"arg", 5 * seed + 3>>, "torch.int32", TRUE, <<2, 1>>, <<1, 0>>),
   input_lengths |-> Tensor(<<"arg", 5 * seed + 4>>, "torch.int32", TRUE, <<2>>, <<2, 1>>),
   label_lengths |-> Tensor(<<"arg", 5 * seed + 5>>, "torch.int32", TRUE, <<2>>, <<1, 0>>),
   blank |-> blank]

HandoffInputs ==
  {HInput(0, 0), HInput(1, 1),
   [HInput(0, 0) EXCEPT !.labels.dtype = "torch.int64"]}

----------------------------------------------------------------------------
(* State *)

VARIABLES
  heap,     \* what torch.empty finds in fresh memory
  ctx,      \* the autograd context objects: saved tensors and blank
  applied,  \* contexts whose forward has been called
  done,     \* contexts whose backward has been called
  call,     \* the last call: arguments, statements run, exception, result
  nextId,   \* allocations made so far
  hist,     \* per context, what its forward call received and allocated
  batch,    \* the kernel at work on a batch: arguments, buffers, workers
  wave      \* one example's forward lattice under the wavefront schedule

wrapperVars == <<ctx, applied, done, call, nextId, hist>>
vars == <<heap, ctx, applied, done, call, nextId, hist, batch, wave>>

CtxIds == 1 .. NCtx

CallRec(op, c, st) ==
  [op |-> op, c |-> c, inp |-> st.inp, raised |-> st.raised, events |-> st.events,
   kcall |-> st.kcall, kout |-> st.kout, ret |-> st.ret]

NoHist == [completed |-> FALSE, inp |-> <<>>, alphas |-> NoTensor, log_norms |-> NoTensor]

NoBatch == [K |-> <<>>, row |-> <<>>, grad |-> <<>>, buf |-> <<>>]
NoWave == [K |-> <<>>, d |-> 0, st |-> <<>>, loc |-> <<>>, buf |-> <<>>,
           cost |-> <<>>, reads |-> {}, writes |-> {}]

NoCalls ==
  /\ ctx = [c \in CtxIds |-> NewCtx]
  /\ applied = {}
  /\ done = {}
  /\ call = [op |-> "none", c |-> 0, inp |-> <<>>, raised |-> NoError,
             events |-> <<>>, kcall |-> NoCall, kout |-> <<>>, ret |-> <<>>]
  /\ nextId = 0
  /\ hist = [c \in CtxIds |-> NoHist]

WrapperInit ==
  /\ heap \in Junk
  /\ NoCalls
  /\ batch = NoBatch
  /\ wave = NoWave

(* Transducer.apply(...): forward on the next fresh context. *)
Forward(c, inp) ==
  /\ c \notin applied
  /\ c = Cardinality(applied) + 1
  /\ \E st \in {forward(ctx[c], inp, heap, nextId)} :
        /\ ctx' = [ctx EXCEPT ![c] = st.ctx]
        /\ call' = CallRec("forward", c, st)
        /\ nextId' = st.n
        /\ hist' = [hist EXCEPT ![c] =
                      IF st.raised # NoError THEN NoHist
                      ELSE [completed |-> TRUE, inp |-> inp,
                            alphas |-> st.t2, log_norms |-> st.t3]]
  /\ applied' = applied \cup {c}
  /\ UNCHANGED <<heap, done, batch, wave>>

(* The incoming gradient: one scalar per example of the batch. *)
Grads(cx) ==
  IF Len(cx.saved) = 7 /\ HasDim(cx.saved[1], 0)
  THEN {Fill(ShapeAt(cx.saved[1], 0), g) : g \in Upstream}
       \cup {[i \in 1 .. ShapeAt(cx.saved[1], 0) |-> i % 3]}
  ELSE {<<>>}

(* Autograd's call of backward on the context of an earlier apply. *)
Backward(c, up) ==
  /\ c \in applied
  /\ c \notin done
  /\ \E st \in {backward(ctx[c],
                          [cost |-> Tensor(<<"grad", c>>, "torch.float32", TRUE,
                                           <<Len(up)>>, up)],
                          heap, nextId)} :
        /\ call' = CallRec("backward", c, st)
        /\ nextId' = st.n
  /\ done' = done \cup {c}
  /\ UNCHANGED <<heap, ctx, applied, hist, batch, wave>>

(* One context, every kind of argument. *)
NextValidation ==
  \/ \E inp \in ValidationInputs : Forward(1, inp)
  \/ \E up \in Grads(ctx[1]) : Backward(1, up)

SpecValidation == WrapperInit /\ [][NextValidation]_vars

(* Several contexts, forward and backward calls in any order. *)
NextHandoff ==
  \/ \E c \in CtxIds, inp \in HandoffInputs : Forward(c, inp)
  \/ \E c \in CtxIds : \E up \in Grads(ctx[c]) : Backward(c, up)

SpecHandoff == WrapperInit /\ [][NextHandoff]_vars

----------------------------------------------------------------------------
(* The kernel at work on one batch (5: examples are independent and may run
   on separate workers).  A worker owns one example; forward advances row by
   row, backward runs once the forward call has returned. *)

LenPairs == {<<1, 0>>, <<2, 1>>, <<MaxT, 0>>, <<MaxT, MaxL>>}

BatchK(lens, seed) ==
  LET B == Len(lens)
      T == MaxOf([i \in 1 .. B |-> lens[i][1]])
      U == MaxOf([i \in 1 .. B |-> lens[i][2]]) + 1
  IN [E |-> Pattern(B * T * NV, seed), P |-> Pattern(B * U * NV, seed + 1),
      L |-> [i \in 1 .. B * (U - 1) |-> i % NV],
      IL |-> [i \in 1 .. B |-> lens[i][1]], LL |-> [i \in 1 .. B |-> lens[i][2]],
      B |-> B, T |-> T, U |-> U, V |-> NV, blank |-> 0]

BatchArgs == {BatchK(lens, seed) : lens \in [1 .. MaxB -> LenPairs], seed \in {0, 1}}

FreshBuffers(K, junk) ==
  [costs |-> Fill(K.B, junk), alphas |-> Fill(K.B * K.T * K.U, junk),
   lognorms |-> Fill(K.B * K.T * K.U, junk),
   egrads |-> Fill(K.B * K.T * K.V, junk), pgrads |-> Fill(K.B * K.U * K.V, junk)]

BatchInit ==
  /\ heap \in Junk
  /\ NoCalls
  /\ wave = NoWave
  /\ \E K \in BatchArgs :
        batch = [K |-> K, row |-> [b \in 0 .. K.B - 1 |-> 0],
                 grad |-> [b \in 0 .. K.B - 1 |-> FALSE],
                 buf |-> FreshBuffers(K, heap)]

ForwardDone(b) == batch.row[b] = ExT(batch.K, b)

(* Worker b computes the next row of its lattice, and the cost after the
   last row. *)
WorkerForwardRow(b) ==
  /\ ~ForwardDone(b)
  /\ \E r \in {ForwardRows(batch.K, b, batch.row[b], batch.row[b] + 1,
                          batch.buf.alphas, batch.buf.lognorms)} :
        batch' = [batch EXCEPT
                    !.row[b] = @ + 1,
                    !.buf.alphas = r.alphas,
                    !.buf.lognorms = r.lognorms,
                    !.buf.costs =
                       IF batch.row[b] + 1 = ExT(batch.K, b)
                       THEN Store(@, b + 1, ExampleCost(batch.K, b, r.alphas, r.lognorms))
                       ELSE @]
  /\ UNCHANGED <<heap, wrapperVars, wave>>

WorkerBackward(b) ==
  /\ \A o \in DOMAIN batch.row : ForwardDone(o)
  /\ ~batch.grad[b]
  /\ \E r \in {BackwardExample(batch.K, b, batch.buf.alphas, batch.buf.lognorms,
                              batch.buf.egrads, batch.buf.pgrads)} :
        batch' = [batch EXCEPT !.grad[b] = TRUE, !.buf.egrads = r.egrads,
                               !.buf.pgrads = r.pgrads]
  /\ UNCHANGED <<heap, wrapperVars, wave>>

NextBatch ==
  \/ \E b \in DOMAIN batch.row : WorkerForwardRow(b)
  \/ \E b \in DOMAIN batch.row : WorkerBackward(b)

SpecBatch == BatchInit /\ [][NextBatch]_vars

----------------------------------------------------------------------------
(* One example's forward lattice under the anti-diagonal wavefront (5):
   diagonal d holds the cells with t + u = d; its cells are computed by
   concurrent workers, each reading its predecessors and then writing its
   own cell, and a barrier separates consecutive diagonals.  reads and
   writes record every buffer access. *)

WaveK(tn, un, seed) ==
  [E |-> Pattern(MaxT * NV, seed), P |-> Pattern((MaxL + 1) * NV, seed + 1),
   L |-> [i \in 1 .. MaxL |-> i % NV], IL |-> <<tn>>, LL |-> <<un - 1>>,
   B |-> 1, T |-> MaxT, U |-> MaxL + 1, V |-> NV, blank |-> 0]

WaveArgs == {WaveK(tn, un, seed) : tn \in 1 .. MaxT, un \in 1 .. MaxL + 1, seed \in {0, 1}}

Diag(c) == c[1] + c[2]
WCells == Cells(ExT(wave.K, 0), ExU(wave.K, 0))
LastDiag == ExT(wave.K, 0) + ExU(wave.K, 0) - 2
WAddr(c) == AIdx(0, c[1], c[2], wave.K.T, wave.K.U)

(* The cells whose alpha and log-normaliser cell c reads. *)
Preds(c) ==
  (IF c[1] > 0 THEN {<<c[1] - 1, c[2]>>} ELSE {}) \cup
  (IF c[2] > 0 THEN {<<c[1], c[2] - 1>>} ELSE {})

(* No barrier: the next diagonal starts at once. *)
NoBarrier(d) == TRUE

(* The barrier: diagonal d is complete. *)
DiagonalDone(d) == \A c \in WCells : Diag(c) = d => wave.st[c] = "done"

WaveInit ==
  /\ heap \in Junk
  /\ NoCalls
  /\ batch = NoBatch
  /\ \E K \in WaveArgs :
        wave = [K |-> K, d |-> 0,
                st |-> [c \in Cells(ExT(K, 0), ExU(K, 0)) |-> "idle"],
                loc |-> [c \in Cells(ExT(K, 0), ExU(K, 0)) |-> <<>>],
                buf |-> [alphas |-> Fill(K.T * K.U, heap),
                         lognorms |-> Fill(K.T * K.U, heap)],
                cost |-> <<>>, reads |-> {}, writes |-> {}]

(* Cell c of the current diagonal loads its predecessors. *)
CellRead(c) ==
  /\ Diag(c) = wave.d
  /\ wave.st[c] = "idle"
  /\ wave' = [wave EXCEPT
       !.st[c] = "read",
       !.loc[c] = [up    |-> IF c[1] > 0 THEN wave.buf.alphas[WAddr(<<c[1] - 1, c[2]>>)] ELSE Zero,
                   zup   |-> IF c[1] > 0 THEN wave.buf.lognorms[WAddr(<<c[1] - 1, c[2]>>)] ELSE One,
                   left  |-> IF c[2] > 0 THEN wave.buf.alphas[WAddr(<<c[1], c[2] - 1>>)] ELSE Zero,
                   zleft |-> IF c[2] > 0 THEN wave.buf.lognorms[WAddr(<<c[1], c[2] - 1>>)] ELSE One],
       !.reads = @ \cup {[by |-> c, cell |-> p, addr |-> WAddr(p),
                          written |-> wave.st[p] = "done"] : p \in Preds(c)}]
  /\ UNCHANGED <<heap, wrapperVars, batch>>

(* Cell c stores its alpha and its log-normaliser. *)
CellWrite(c) ==
  /\ wave.st[c] = "read"
  /\ wave' = [wave EXCEPT
       !.st[c] = "done",
       !.buf.alphas = Store(@, WAddr(c),
                            AlphaCell(wave.K, 0, c[1], c[2], wave.loc[c].up,
                                      wave.loc[c].left, wave.loc[c].zup, wave.loc[c].zleft)),
       !.buf.lognorms = Store(@, WAddr(c), LogNorm(wave.K, 0, c[1], c[2])),
       !.writes = @ \cup {[by |-> c, addr |-> WAddr(c)]}]
  /\ UNCHANGED <<heap, wrapperVars, batch>>

Barrier ==
  /\ wave.d < LastDiag
  /\ DiagonalDone(wave.d)
  /\ wave' = [wave EXCEPT !.d = @ + 1]
  /\ UNCHANGED <<heap, wrapperVars, batch>>

Finish ==
  /\ wave.d = LastDiag
  /\ DiagonalDone(wave.d)
  /\ wave.cost = <<>>
  /\ wave' = [wave EXCEPT !.cost = <<ExampleCost(wave.K, 0, wave.buf.alphas, wave.buf.lognorms)>>]
  /\ UNCHANGED <<heap, wrapperVars, batch>>

NextWave ==
  \/ \E c \in WCells : CellRead(c)
  \/ \E c \in WCells : CellWrite(c)
  \/ Barrier
  \/ Finish

SpecWave == WaveInit /\ [][NextWave]_vars

----------------------------------------------------------------------------
(* Properties of the wrapper.  They speak of the last call: its arguments
   (call.inp), the exception it raised, the statements it ran, the kernel
   call it made and what it returned. *)

IsForward == call.op = "forward"
IsBackward == call.op = "backward"
Raised == call.raised # NoError

RECURSIVE IndexOf(_, _)
IndexOf(seq, x) ==
  IF seq = <<>> THEN 0
  ELSE IF Head(seq) = x THEN 1
  ELSE LET i == IndexOf(Tail(seq), x) IN IF i = 0 THEN 0 ELSE i + 1

Did(ev) == IndexOf(call.events, ev) > 0
Before(e1, e2) == Did(e1) /\ IndexOf(call.events, e1) < IndexOf(call.events, e2)

InputTensors(inp) ==
  <<inp.emissions, inp.predictions, inp.labels, inp.input_lengths, inp.label_lengths>>

RightTypes(inp) ==
  /\ inp.emissions.dtype = "torch.float32" /\ inp.predictions.dtype = "torch.float32"
  /\ inp.labels.dtype = "torch.int32" /\ inp.input_lengths.dtype = "torch.int32"
  /\ inp.label_lengths.dtype = "torch.int32"

AllContiguous(inp) == \A i \in 1 .. 5 : InputTensors(inp)[i].contig

RightDims(inp) ==
  /\ Len(inp.emissions.shape) = 3 /\ Len(inp.predictions.shape) = 3
  /\ Len(inp.labels.shape) = 2 /\ Len(inp.input_lengths.shape) = 1
  /\ Len(inp.label_lengths.shape) = 1

(* x is the largest element of seq. *)
IsMax(x, seq) ==
  /\ \E i \in DOMAIN seq : seq[i] = x
  /\ \A i \in DOMAIN seq : seq[i] <= x

(* One of the shape defects of the list: vocabulary, number of lengths,
   label padding, T against the longest input, U against the longest label. *)
ShapeDefect(inp) ==
  \/ inp.emissions.shape[3] # inp.predictions.shape[3]
  \/ Len(inp.input_lengths.data) # inp.emissions.shape[1]
  \/ Len(inp.label_lengths.data) # inp.emissions.shape[1]
  \/ inp.labels.shape[2] # inp.predictions.shape[2] - 1
  \/ ~IsMax(inp.emissions.shape[2], inp.input_lengths.data)
  \/ ~IsMax(inp.predictions.shape[2] - 1, inp.label_lengths.data)

ShapeContract ==
  /\ ShapeDefect(call.inp) => call.raised.kind = "ValueError"
  /\ (~ShapeDefect(call.inp) /\ call.inp.labels.shape[1] = call.inp.emissions.shape[1])
        => Did("certify_inputs")

(* C2 as stated: with right types, contiguity and dimensions, forward raises
   ValueError whenever a shape defect is present, and certify_inputs raises
   nothing when none is present and labels has B rows. *)
C2_AsStated ==
  (IsForward /\ RightTypes(call.inp) /\ AllContiguous(call.inp) /\ RightDims(call.inp))
     => ShapeContract

(* The extent of C2: the same statement for batches of at least one example
   (B >= 1), the only ones for which max(input_lengths) exists. *)
C2_NonEmptyBatch ==
  (IsForward /\ RightTypes(call.inp) /\ AllContiguous(call.inp) /\ RightDims(call.inp)
     /\ call.inp.emissions.shape[1] >= 1)
     => ShapeContract

(* C3: in every forward call the kernel is invoked only after certify_inputs
   has returned; a call that raises before certify_inputs returns allocates
   nothing, invokes no kernel, returns nothing and leaves ctx without saved
   tensors and without blank; and a backward on the context of a forward
   that did not complete never reaches the kernel. *)
C3_ValidationFirst ==
  /\ (IsForward /\ call.kcall # NoCall) => Before("certify_inputs", "_transducer.forward")
  /\ (IsForward /\ Did("torch.empty")) => Before("certify_inputs", "torch.empty")
  /\ (IsForward /\ Raised /\ ~Did("certify_inputs")) =>
        /\ call.events = <<>>
        /\ call.kcall = NoCall
        /\ call.ret = <<>>
        /\ nextId = 0
        /\ ctx[call.c] = NewCtx
  /\ (IsBackward /\ ~hist[call.c].completed) =>
        (Raised /\ call.kcall = NoCall /\ call.ret = <<>>)

C3_Witness ==
  /\ IsBackward
  /\ ~hist[call.c].completed
  /\ call.raised.kind = "ValueError"
  /\ ctx[call.c] = NewCtx

(* C4 as stated: a batch with an example of negative label_length, or of
   input_length below label_length, makes forward raise without the kernel
   being invoked. *)
C4_AsStated ==
  (IsForward /\ RightTypes(call.inp) /\ AllContiguous(call.inp) /\ RightDims(call.inp)
     /\ \E i \in DOMAIN call.inp.label_lengths.data :
           \/ call.inp.label_lengths.data[i] < 0
           \/ /\ i \in DOMAIN call.inp.input_lengths.data
              /\ call.inp.input_lengths.data[i] < call.inp.label_lengths.data[i])
     => (Raised /\ call.kcall = NoCall)

(* C6 as stated: a forward call with a wrongly typed input raises TypeError
   and does not invoke the kernel, whatever else is wrong with the input. *)
C6_AsStated ==
  (IsForward /\ ~RightTypes(call.inp))
     => (call.raised.kind = "TypeError" /\ call.kcall = NoCall)

DimMessages ==
  {"emissions must be 3D", "predictions must be 3D", "labels must be 2D",
   "input_lenghts must be 1D", "label_lenghts must be 1D"}

(* C7 as stated: a forward call with correctly typed, contiguous tensors of
   which one has the wrong number of dimensions raises the ValueError
   '<name> must be <n>D' of check_dim. *)
C7_AsStated ==
  (IsForward /\ RightTypes(call.inp) /\ AllContiguous(call.inp) /\ ~RightDims(call.inp))
     => (call.raised.kind = "ValueError" /\ call.raised.msg \in DimMessages)

(* C8 as stated: whenever forward reaches the kernel, each of the five input
   tensors is contiguous (has passed a contiguity check). *)
C8_AsStated ==
  (IsForward /\ call.kcall # NoCall) => AllContiguous(call.inp)

(* The example that entry i of a (B, n, V) gradient tensor belongs to. *)
ExampleOf(i, t) == (i - 1) \div (t.shape[2] * t.shape[3])

Scaled(data, t, up) == [i \in DOMAIN data |-> RMul(RInt(up[ExampleOf(i, t) + 1]), data[i])]

(* C1 as stated: the egrads and pgrads that backward returns are the
   kernel's gradients of example b multiplied by the incoming cost[b]. *)
C1_AsStated ==
  (IsBackward /\ ~Raised) =>
     /\ call.ret[1].data = Scaled(call.kout[1], call.ret[1], call.inp.cost.data)
     /\ call.ret[2].data = Scaled(call.kout[2], call.ret[2], call.inp.cost.data)

(* C5: the backward call on context c hands to the kernel the five inputs
   that the forward call on c received, the alphas and log_norms that this
   forward call allocated and filled, its blank id, and two fresh gradient
   buffers; the tables of different forward calls are different tensors; a
   backward reaches the kernel only on a context whose forward completed. *)
C5_Handoff ==
  /\ (IsBackward /\ call.kcall # NoCall) =>
        /\ hist[call.c].completed
        /\ call.kcall.fn = "backward"
        /\ call.kcall.blank = hist[call.c].inp.blank
        /\ call.kcall.ptrs[1] = hist[call.c].inp.emissions.id
        /\ call.kcall.ptrs[2] = hist[call.c].inp.predictions.id
        /\ call.kcall.ptrs[5] = hist[call.c].alphas.id
        /\ call.kcall.ptrs[6] = hist[call.c].log_norms.id
        /\ call.kcall.ptrs[7] = hist[call.c].inp.labels.id
        /\ call.kcall.ptrs[8] = hist[call.c].inp.input_lengths.id
        /\ call.kcall.ptrs[9] = hist[call.c].inp.label_lengths.id
        /\ \A o \in CtxIds :
              {call.kcall.ptrs[3], call.kcall.ptrs[4]}
                 \cap {hist[o].alphas.id, hist[o].log_norms.id} = {}
  /\ \A c \in CtxIds : hist[c].completed =>
        /\ ctx[c].saved = <<hist[c].inp.emissions, hist[c].inp.predictions,
                            hist[c].alphas, hist[c].log_norms, hist[c].inp.labels,
                            hist[c].inp.input_lengths, hist[c].inp.label_lengths>>
        /\ ctx[c].blank = hist[c].inp.blank
        /\ hist[c].alphas.id # hist[c].log_norms.id
        /\ \A o \in CtxIds \ {c} : hist[o].completed =>
              {hist[c].alphas.id, hist[c].log_norms.id}
                 \cap {hist[o].alphas.id, hist[o].log_norms.id} = {}
  /\ done \subseteq applied

C5_Witness ==
  /\ IsBackward /\ call.c = 1 /\ ~Raised
  /\ call.kcall.fn = "backward"
  /\ hist[1].completed /\ hist[2].completed
  /\ hist[1].inp # hist[2].inp
  /\ 2 \in done

----------------------------------------------------------------------------
(* Properties of the kernel schedules. *)

Slice(seq, first, n) == [i \in 1 .. n |-> seq[first + i]]

(* Example b of the batch K on its own: a batch of one with the same padded
   T and U, built from nothing but the example's own slices. *)
KOne(K, b) ==
  [E |-> Slice(K.E, b * K.T * K.V, K.T * K.V),
   P |-> Slice(K.P, b * K.U * K.V, K.U * K.V),
   L |-> Slice(K.L, b * (K.U - 1), K.U - 1),
   IL |-> <<K.IL[b + 1]>>, LL |-> <<K.LL[b + 1]>>,
   B |-> 1, T |-> K.T, U |-> K.U, V |-> K.V, blank |-> K.blank]

AloneForward(K) ==
  KernelForward(K, 1, <<Zero>>, Fill(K.T * K.U, Zero), Fill(K.T * K.U, Zero))

AloneBackward(K, f) ==
  KernelBackward(K, 1, f.alphas, f.lognorms, Fill(K.T * K.V, Zero), Fill(K.U * K.V, Zero))

SameForward(K, b, buf, f) ==
  /\ buf.costs[b + 1] = f.costs[1]
  /\ \A c \in Cells(K.IL[b + 1], K.LL[b + 1] + 1) :
        /\ buf.alphas[b * K.T * K.U + c[1] * K.U + c[2] + 1] = f.alphas[c[1] * K.U + c[2] + 1]
        /\ buf.lognorms[b * K.T * K.U + c[1] * K.U + c[2] + 1]
              = f.lognorms[c[1] * K.U + c[2] + 1]

SameBackward(K, b, buf, g) ==
  /\ Slice(buf.egrads, b * K.T * K.V, K.T * K.V) = g.egrads
  /\ Slice(buf.pgrads, b * K.U * K.V, K.U * K.V) = g.pgrads

(* C9: under every interleaving of the per-example workers, once example b
   has finished its forward pass its cost and the valid region of its alpha
   and log_norm tables, and once it has finished its backward pass its egrad
   and pgrad slices, equal those of the example run alone as a batch of one,
   which depends on the example's own slices only. *)
C9_BatchIndependence ==
  \A b \in DOMAIN batch.row :
     ForwardDone(b) =>
        \E f \in {AloneForward(KOne(batch.K, b))} :
           /\ SameForward(batch.K, b, batch.buf, f)
           /\ batch.grad[b] =>
                 SameBackward(batch.K, b, batch.buf, AloneBackward(KOne(batch.K, b), f))

C9_Witness ==
  /\ batch # NoBatch
  /\ \A b \in DOMAIN batch.row : batch.grad[b]
  /\ batch.K.IL[1] # batch.K.IL[2]
  /\ batch.K.LL[1] # batch.K.LL[2]
  /\ batch.buf.costs[1] # batch.buf.costs[2]

(* C10: under the wavefront schedule every cell read lies on a strictly
   smaller diagonal and has been written, no cell's read or write touches
   the address of another cell of its own diagonal, and the finished alpha
   table and cost equal those of the sequential row-by-row recursion. *)
C10_Wavefront ==
  /\ \A r \in wave.reads :
        /\ Diag(r.cell) < Diag(r.by)
        /\ r.written
        /\ \A c \in WCells : (c # r.by /\ Diag(c) = Diag(r.by)) =>
              r.addr # c[1] * wave.K.U + c[2] + 1
  /\ \A w \in wave.writes :
        /\ w.addr = w.by[1] * wave.K.U + w.by[2] + 1
        /\ \A c \in WCells : (c # w.by /\ Diag(c) = Diag(w.by)) =>
              w.addr # c[1] * wave.K.U + c[2] + 1
  /\ wave.cost # <<>> =>
        \E s \in {AloneForward(wave.K)} :
           /\ wave.cost[1] = s.costs[1]
           /\ \A c \in WCells :
                 wave.buf.alphas[c[1] * wave.K.U + c[2] + 1]
                    = s.alphas[c[1] * wave.K.U + c[2] + 1]

C10_Witness ==
  /\ wave.cost # <<>>
  /\ ExT(wave.K, 0) = MaxT /\ ExU(wave.K, 0) = MaxL + 1
  /\ Cardinality(wave.reads) = 2 * MaxT * (MaxL + 1) - MaxT - (MaxL + 1)
  /\ wave.cost[1][1] > 0

====
